---- MODULE Spec2Model ----
(***************************************************************************)
(* Model of the two scripts of tangram-places-puller:                      *)
(*   places_retriever.py  the enrichment run (main, get_place_details,     *)
(*                        construct_photo_url), specification Spec;        *)
(*   merger.py            the CSV merge tool (merge_files and the CLI      *)
(*                        block), specification MergeSpec.                 *)
(* Text is modelled by TLC strings; the cells of input.csv are sequences   *)
(* of one-character strings so that str.strip() is computed, not assumed.  *)
(* Python's None is modelled by an option: <<>> is None, <<v>> is v.       *)
(***************************************************************************)
EXTENDS Integers, Sequences, FiniteSets, TLC

(* ------------------------------ bounds --------------------------------- *)
\* rows of input.csv
MaxRows == 2
\* photo objects of one candidate place
MaxPhotos == 2
\* rows of each CSV file given to the merge tool
MaxMergeRows == 2

(* --------------------------- configuration ----------------------------- *)
INPUT_FILENAME == "input.csv"
OUTPUT_FILENAME == "output.csv"
BUSINESS_NAME_COLUMN == "Business Name"
\* default of construct_photo_url's max_width parameter
max_width == 400

VARIABLES
    API_KEY,         \* os.getenv("GOOGLE_PLACES_API_KEY"): <<>> unset, <<"">>, <<"KEY">>
    inputFile,       \* input.csv as found on disk
    pc,              \* position of main(): start, read, loop, wait, done
    business_names,  \* main's list of stripped names
    i,               \* index (1-based) of the entity the loop is at
    all_results,     \* main's list of result_row dicts
    max_photos,      \* main's max_photos
    net,             \* the requests posted and the responses received, in order
    opened,          \* files open() was called on, in order: <<name, mode>>
    outputFile,      \* output.csv: <<>> absent, <<[header, rows]>> written
    critical,        \* the logging.critical messages emitted, in order
    exitStatus,      \* <<>> while running, <<n>> once the process has exited
    mergeIn,         \* merge tool: the two input files and the CLI arguments
    mpc,             \* merge tool: start, done
    mergedFile,      \* merge tool: the output path: <<>> absent, <<dataframe>>
    mergeOut,        \* merge tool: what was printed
    mergeExit        \* merge tool: <<>> while running, <<n>> once exited

enrichVars == <<API_KEY, inputFile, pc, business_names, i, all_results,
                max_photos, net, opened, outputFile, critical, exitStatus>>
mergeVars == <<mergeIn, mpc, mergedFile, mergeOut, mergeExit>>
vars == <<API_KEY, inputFile, pc, business_names, i, all_results,
          max_photos, net, opened, outputFile, critical, exitStatus,
          mergeIn, mpc, mergedFile, mergeOut, mergeExit>>

(* ------------------------------ helpers -------------------------------- *)
SeqsUpTo(S, n) == UNION {[1..k -> S] : k \in 0..n}

Range(s) == {s[k] : k \in DOMAIN s}

\* truthiness tested as `is not None`: the empty string passes
Truthy_notNone(opt) == opt # <<>>

\* Python truthiness of an optional string (None and "" are falsy)
Truthy(opt) == opt # <<>> /\ opt[1] # ""

RECURSIVE Join(_, _)
\* sep.join(parts)
Join(sep, parts) ==
    IF parts = <<>> THEN ""
    ELSE IF Len(parts) = 1 THEN parts[1]
    ELSE parts[1] \o sep \o Join(sep, Tail(parts))

IsSpace(c) == c = " "

RECURSIVE LStrip(_)
LStrip(cs) ==
    IF cs # <<>> /\ IsSpace(Head(cs)) THEN LStrip(Tail(cs)) ELSE cs

RECURSIVE RStrip(_)
RStrip(cs) ==
    IF cs # <<>> /\ IsSpace(cs[Len(cs)]) THEN RStrip(SubSeq(cs, 1, Len(cs) - 1)) ELSE cs

\* str.strip() of a cell, as a string
Strip(cs) == Join("", LStrip(RStrip(cs)))

\* filter(None, strings): drops the empty strings
RECURSIVE FilterNonEmpty(_)
FilterNonEmpty(ss) ==
    IF ss = <<>> THEN <<>>
    ELSE IF Head(ss) = "" THEN FilterNonEmpty(Tail(ss))
    ELSE <<Head(ss)>> \o FilterNonEmpty(Tail(ss))

(* --------------------- the places API, as the code sees it ------------- *)
\* one authorAttributions entry
Attributions == {[displayName |-> "Ann", uri |-> "//u/ann"]}

\* a photo object: its "name" (absent: <<>>) and its authorAttributions;
\* one that has a name and a credited author, one that has neither
Photos ==
    {[name |-> <<"places/1/photos/p">>, authorAttributions |-> <<x>>] : x \in Attributions}
    \cup {[name |-> <<>>, authorAttributions |-> <<>>]}

\* a candidate place: a JSON object whose keys are its DOMAIN ({} is <<>>).
\* rating is in tenths (45 is the JSON number 4.5).
Candidates ==
    {<<>>, [userRatingCount |-> 0]}
    \cup {[rating |-> 45, userRatingCount |-> 12, photos |-> ps] :
            ps \in SeqsUpTo(Photos, MaxPhotos)}

\* a second candidate, which the code never looks at
OtherCandidate ==
    [rating |-> 10,
     photos |-> <<[name |-> <<"places/2/photos/q">>, authorAttributions |-> <<>>]>>]

\* what requests.post / raise_for_status / response.json() can produce
Responses ==
    {[kind |-> k, places |-> <<>>] :
        k \in {"conn_error", "http_error", "not_json", "json_no_places", "json_bad_places"}}
    \cup {[kind |-> "json_places", places |-> ps] :
            ps \in {<<>>} \cup {<<c>> : c \in Candidates}
                   \cup {<<c, OtherCandidate>> : c \in Candidates}}

\* str() of a JSON float given in tenths
StrFloat(t) == ToString(t \div 10) \o "." \o ToString(t % 10)

\* the empty-name guard left out
NeedsRequest_anyName(key, business_name) == Truthy(key)

\* a name already requested is not requested again
NeedsRequest_cached(key, business_name) ==
    /\ Truthy(key)
    /\ business_name # ""
    /\ \A n \in DOMAIN net : net[n].query # business_name

\* get_place_details, before the request: TRUE iff a request is posted
NeedsRequest(key, business_name) == Truthy(key) /\ business_name # ""

\* get_place_details, after the request: the place returned, or None
get_place_details(resp) ==
    CASE resp.kind = "conn_error"      -> <<>>   \* RequestException, no response
      [] resp.kind = "http_error"      -> <<>>   \* raise_for_status: HTTPError
      [] resp.kind = "not_json"        -> <<>>   \* response.json() raises
      [] resp.kind = "json_bad_places" -> <<>>   \* len() raises TypeError
      [] resp.kind = "json_no_places"  -> <<>>   \* falsy results or no "places"
      [] resp.kind = "json_places"     ->
            IF Len(resp.places) > 0 THEN <<resp.places[1]>> ELSE <<>>

construct_photo_url(key, photo_name) ==
    IF ~Truthy(key) THEN ""
    ELSE IF ~Truthy(photo_name) THEN ""
    ELSE "https://places.googleapis.com/v1/" \o photo_name[1] \o "/media?key="
         \o key[1] \o "&maxWidthPx=" \o ToString(max_width)

\* f"photos_{idx}"
PhotoColumn(idx) == "photos_" \o ToString(idx)

\* the photos of photos_data that have a truthy name, in order
RECURSIVE NamedPhotos(_)
NamedPhotos(photos_data) ==
    IF photos_data = <<>> THEN <<>>
    ELSE IF Truthy(Head(photos_data).name)
         THEN <<Head(photos_data)>> \o NamedPhotos(Tail(photos_data))
         ELSE NamedPhotos(Tail(photos_data))

\* "; ".join(displayName + ': ' + uri for each attribution)
PhotoAttribText(author_attributions) ==
    Join("; ", [k \in 1..Len(author_attributions) |->
                  author_attributions[k].displayName \o ": " \o author_attributions[k].uri])

\* the attributions list: one text per named photo that has attributions
RECURSIVE AttributionTexts(_)
AttributionTexts(named) ==
    IF named = <<>> THEN <<>>
    ELSE (IF Head(named).authorAttributions # <<>>
          THEN <<PhotoAttribText(Head(named).authorAttributions)>>
          ELSE <<>>) \o AttributionTexts(Tail(named))

BaseColumns == {BUSINESS_NAME_COLUMN, "review count", "rating", "image_attributions"}

\* `if details:` - None and {} are falsy
DetailsTruthy(details) == details # <<>> /\ DOMAIN details[1] # {}

PhotosData(details) ==
    IF DetailsTruthy(details) /\ "photos" \in DOMAIN details[1]
    THEN details[1].photos ELSE <<>>

\* current_photo_count of one loop iteration (0 when the block is not entered)
CurrentPhotoCount(details) == Len(NamedPhotos(PhotosData(details)))

\* max_photos overwritten by every entity that has photos
UpdateMaxPhotos_last(old, current_photo_count) ==
    IF current_photo_count > 0 THEN current_photo_count ELSE old

\* max_photos after one loop iteration
UpdateMaxPhotos(old, current_photo_count) ==
    IF current_photo_count > old THEN current_photo_count ELSE old

\* result_row of one loop iteration
ResultRow(key, name, details) ==
    LET d     == details[1]
        named == NamedPhotos(PhotosData(details))
        urls  == [k \in 1..Len(named) |-> construct_photo_url(key, named[k].name)]
        cols  == BaseColumns \cup {PhotoColumn(k - 1) : k \in 1..Len(urls)}
    IN  [c \in cols |->
           IF c = BUSINESS_NAME_COLUMN THEN name
           ELSE IF c = "review count"
                THEN (IF DetailsTruthy(details) /\ "userRatingCount" \in DOMAIN d
                      THEN ToString(d.userRatingCount) ELSE "")
           ELSE IF c = "rating"
                THEN (IF DetailsTruthy(details) /\ "rating" \in DOMAIN d
                      THEN StrFloat(d.rating) ELSE "")
           ELSE IF c = "image_attributions"
                THEN (IF PhotosData(details) # <<>>
                      THEN Join(" | ", FilterNonEmpty(AttributionTexts(named)))
                      ELSE "")
           ELSE urls[CHOOSE k \in 1..Len(urls) : PhotoColumn(k - 1) = c]]

\* output_headers
OutputHeaders(maxp) ==
    <<BUSINESS_NAME_COLUMN, "review count", "rating">>
    \o [k \in 1..maxp |-> PhotoColumn(k - 1)]
    \o <<"image_attributions">>

\* csv.DictWriter(fieldnames, extrasaction='ignore') with the default restval ''
DictWriterRow(fieldnames, row) ==
    [h \in 1..Len(fieldnames) |->
        IF fieldnames[h] \in DOMAIN row THEN row[fieldnames[h]] ELSE ""]

(* ----------------------------- input.csv ------------------------------- *)
\* the text of a cell of the name column
Cells == {<<" ">>, <<"A">>, <<" ", "B">>}

\* a data row: its name cell, or short = TRUE when the row has no field
\* under the name column (DictReader then yields None)
DataRows ==
    {[short |-> FALSE, cell |-> c] : c \in Cells} \cup {[short |-> TRUE, cell |-> <<>>]}

Headers == {<<"Address", BUSINESS_NAME_COLUMN>>, <<"Address", "Name">>}

\* status: missing (FileNotFoundError), unreadable (any other exception of
\* open() or of the reader), ok
InputFiles ==
    {[status |-> "missing", header |-> <<>>, rows |-> <<>>],
     [status |-> "unreadable", header |-> <<>>, rows |-> <<>>]}
    \cup {[status |-> "ok", header |-> h, rows |-> rs] :
            h \in Headers, rs \in SeqsUpTo(DataRows, MaxRows)}

ApiKeys == {<<>>, <<"">>, <<"KEY">>}

(* ------------------------ places_retriever.main ------------------------ *)
Request(idx, name) ==
    [ev |-> "request", idx |-> idx, query |-> name, kind |-> "", details |-> <<>>]

Response(idx, name, resp) ==
    [ev |-> "response", idx |-> idx, query |-> name, kind |-> resp.kind,
     details |-> get_place_details(resp)]

\* the merge tool does not run
MergeIdle ==
    /\ mergeIn = [file1 |-> <<>>, file2 |-> <<>>, merge_type |-> "inner"]
    /\ mpc = "idle"
    /\ mergedFile = <<>>
    /\ mergeOut = <<>>
    /\ mergeExit = <<>>

Init ==
    /\ API_KEY \in ApiKeys
    /\ inputFile \in InputFiles
    /\ pc = "start"
    /\ business_names = <<>>
    /\ i = 1
    /\ all_results = <<>>
    /\ max_photos = 0
    /\ net = <<>>
    /\ opened = <<>>
    /\ outputFile = <<>>
    /\ critical = <<>>
    /\ exitStatus = <<>>
    /\ MergeIdle

\* main returns: the interpreter exits with status 0
Return ==
    /\ pc' = "done"
    /\ exitStatus' = <<0>>

\* logging.critical(...) followed by return
Fatal(msg) ==
    /\ critical' = Append(critical, msg)
    /\ Return

\* lines 75-79: the credential check
CheckCredential ==
    /\ pc = "start"
    /\ IF ~Truthy(API_KEY)
       THEN Fatal("GOOGLE_PLACES_API_KEY environment variable is not set")
       ELSE /\ pc' = "read"
            /\ UNCHANGED <<critical, exitStatus>>
    /\ UNCHANGED <<API_KEY, inputFile, business_names, i, all_results, max_photos,
                   net, opened, outputFile>>
    /\ UNCHANGED mergeVars

\* lines 81-96: read the name column of input.csv
ReadInput ==
    /\ pc = "read"
    /\ opened' = Append(opened, <<INPUT_FILENAME, "r">>)
    /\ IF inputFile.status = "missing"
       THEN Fatal("Input file not found") /\ UNCHANGED <<business_names, i>>
       ELSE IF inputFile.status = "unreadable"
       THEN Fatal("Error reading") /\ UNCHANGED <<business_names, i>>
       ELSE IF BUSINESS_NAME_COLUMN \notin Range(inputFile.header)
       THEN Fatal("does not contain the column") /\ UNCHANGED <<business_names, i>>
       ELSE IF \E k \in DOMAIN inputFile.rows : inputFile.rows[k].short
       \* None.strip() raises AttributeError, caught by `except Exception`
       THEN Fatal("Error reading") /\ UNCHANGED <<business_names, i>>
       ELSE /\ business_names' =
                    [k \in 1..Len(inputFile.rows) |-> Strip(inputFile.rows[k].cell)]
            /\ i' = 1
            /\ pc' = "loop"
            /\ UNCHANGED <<critical, exitStatus>>
    /\ UNCHANGED <<API_KEY, inputFile, all_results, max_photos, net, outputFile>>
    /\ UNCHANGED mergeVars

\* an entity without result is dropped instead of getting an empty row
ProcessDetails_skipNone(details) ==
    /\ all_results' = IF details = <<>> THEN all_results
                      ELSE Append(all_results, ResultRow(API_KEY, business_names[i], details))
    /\ max_photos' = UpdateMaxPhotos(max_photos, CurrentPhotoCount(details))
    /\ i' = i + 1

\* lines 104-146: build result_row from details, update max_photos, append
ProcessDetails(details) ==
    /\ all_results' = Append(all_results, ResultRow(API_KEY, business_names[i], details))
    /\ max_photos' = UpdateMaxPhotos(max_photos, CurrentPhotoCount(details))
    /\ i' = i + 1

\* one loop iteration in which get_place_details returns None without a request
SkipEntity ==
    /\ pc = "loop"
    /\ i <= Len(business_names)
    /\ ~NeedsRequest(API_KEY, business_names[i])
    /\ ProcessDetails(<<>>)
    /\ UNCHANGED <<API_KEY, inputFile, pc, business_names, net, opened, outputFile,
                   critical, exitStatus>>
    /\ UNCHANGED mergeVars

\* lines 101-103, 23-42: requests.post is called and blocks
SendRequest ==
    /\ pc = "loop"
    /\ i <= Len(business_names)
    /\ NeedsRequest(API_KEY, business_names[i])
    /\ net' = Append(net, Request(i, business_names[i]))
    /\ pc' = "wait"
    /\ UNCHANGED <<API_KEY, inputFile, business_names, i, all_results, max_photos,
                   opened, outputFile, critical, exitStatus>>
    /\ UNCHANGED mergeVars

\* lines 42-60, 104-146: the call returns or raises; the rest of the iteration
ReceiveResponse ==
    /\ pc = "wait"
    /\ \E resp \in Responses :
          /\ net' = Append(net, Response(i, business_names[i], resp))
          /\ ProcessDetails(get_place_details(resp))
    /\ pc' = "loop"
    /\ UNCHANGED <<API_KEY, inputFile, business_names, opened, outputFile,
                   critical, exitStatus>>
    /\ UNCHANGED mergeVars

\* the emptiness test left out: a header-only file is written
NoResults_never(results) == FALSE

\* `if not all_results:` - nothing to write
NoResults(results) == results = <<>>

\* lines 148-167: after the loop
WriteOutput ==
    /\ pc = "loop"
    /\ i > Len(business_names)
    /\ IF NoResults(all_results)
       THEN UNCHANGED <<opened, outputFile>>
       ELSE /\ opened' = Append(opened, <<OUTPUT_FILENAME, "w">>)
            /\ \/ outputFile' =
                     <<[header |-> OutputHeaders(max_photos),
                        rows |-> [r \in 1..Len(all_results) |->
                                    DictWriterRow(OutputHeaders(max_photos), all_results[r])]]>>
               \* open() or the writer raises: logged, no file
               \/ UNCHANGED outputFile
    /\ Return
    /\ UNCHANGED <<API_KEY, inputFile, business_names, i, all_results, max_photos,
                   net, critical>>
    /\ UNCHANGED mergeVars

Next ==
    \/ CheckCredential
    \/ ReadInput
    \/ SkipEntity
    \/ SendRequest
    \/ ReceiveResponse
    \/ WriteOutput

Spec == Init /\ [][Next]_vars

(* ------------------------------ merger.py ------------------------------ *)
\* A DataFrame is [columns |-> sequence of names, rows |-> sequence of rows],
\* a row being the sequence of its cells in column order. Cells are text; the
\* missing value (NaN), which to_csv writes as an empty field, is "".
NaN == ""

\* the key values, in sort order
KeyOrder == <<"1", "2">>

MergeTypes == {"inner", "left", "right", "outer"}

FILE1 == "first.csv"
FILE2 == "second.csv"

\* the data rows of a file with the given header
FrameRows(columns, keyColumns, values) ==
    SeqsUpTo({r \in [1..Len(columns) -> Range(KeyOrder) \cup values] :
                \A c \in DOMAIN columns :
                    (columns[c] \in keyColumns) <=> (r[c] \in Range(KeyOrder))},
             MaxMergeRows)

Frames(headers, values) ==
    UNION {{[columns |-> h, rows |-> rs] :
                rs \in FrameRows(h, {BUSINESS_NAME_COLUMN, "id"}, values)} : h \in headers}

\* a file on disk: <<>> when pd.read_csv cannot read it
Files1 ==
    {<<>>} \cup {<<df>> : df \in Frames({<<BUSINESS_NAME_COLUMN, "x">>, <<"id", "x">>,
                                         <<BUSINESS_NAME_COLUMN, "v">>}, {"a"})}

Files2 ==
    {<<>>} \cup {<<df>> : df \in Frames({<<BUSINESS_NAME_COLUMN, "y">>, <<"id", "y">>,
                                         <<"v", BUSINESS_NAME_COLUMN>>}, {"b", "c"})}

KeyIndex(df, on) == CHOOSE c \in DOMAIN df.columns : df.columns[c] = on

DropAt(row, k) == SubSeq(row, 1, k - 1) \o SubSeq(row, k + 1, Len(row))

\* the columns of df other than the key
OtherColumns(df, on) == DropAt(df.columns, KeyIndex(df, on))

\* pandas' default suffixes for a non-key column name found in both frames
Suffixed(name, others, suffix) ==
    IF name \in Range(others) THEN name \o suffix ELSE name

\* the columns of df1.merge(df2, on=on): df1's, then df2's without the key
MergedColumns(df1, df2, on) ==
    [c \in 1..Len(df1.columns) |->
        IF df1.columns[c] = on THEN on
        ELSE Suffixed(df1.columns[c], OtherColumns(df2, on), "_x")]
    \o [c \in 1..Len(OtherColumns(df2, on)) |->
        Suffixed(OtherColumns(df2, on)[c], OtherColumns(df1, on), "_y")]

\* only the first row that has the key
MatchingRows_first(rows, ki, key) ==
    IF \E n \in DOMAIN rows : rows[n][ki] = key
    THEN <<rows[CHOOSE n \in DOMAIN rows :
                  /\ rows[n][ki] = key
                  /\ \A m \in 1..(n - 1) : rows[m][ki] # key]>>
    ELSE <<>>

\* the rows of a frame that have the key, in order
RECURSIVE MatchingRows(_, _, _)
MatchingRows(rows, ki, key) ==
    IF rows = <<>> THEN <<>>
    ELSE (IF Head(rows)[ki] = key THEN <<Head(rows)>> ELSE <<>>)
         \o MatchingRows(Tail(rows), ki, key)

\* a matched pair as one output row
Combine(a, b, df2, on) == a \o DropAt(b, KeyIndex(df2, on))

\* a row of df1 without a match
LeftOnly(a, df2) == a \o [c \in 1..(Len(df2.columns) - 1) |-> NaN]

\* a row of df2 without a match
RightOnly(b, df1, df2, on) ==
    [c \in 1..Len(df1.columns) |->
        IF c = KeyIndex(df1, on) THEN b[KeyIndex(df2, on)] ELSE NaN]
    \o DropAt(b, KeyIndex(df2, on))

\* the output rows driven by rows of df1 (inner: keep = FALSE, left: keep = TRUE)
RECURSIVE JoinFromLeft(_, _, _, _, _)
JoinFromLeft(rows1, df1, df2, on, keep) ==
    IF rows1 = <<>> THEN <<>>
    ELSE LET a  == Head(rows1)
             ms == MatchingRows(df2.rows, KeyIndex(df2, on), a[KeyIndex(df1, on)])
         IN  (IF ms = <<>>
              THEN (IF keep THEN <<LeftOnly(a, df2)>> ELSE <<>>)
              ELSE [k \in 1..Len(ms) |-> Combine(a, ms[k], df2, on)])
             \o JoinFromLeft(Tail(rows1), df1, df2, on, keep)

\* the output rows driven by rows of df2 (how = right)
RECURSIVE JoinFromRight(_, _, _, _)
JoinFromRight(rows2, df1, df2, on) ==
    IF rows2 = <<>> THEN <<>>
    ELSE LET b  == Head(rows2)
             ms == MatchingRows(df1.rows, KeyIndex(df1, on), b[KeyIndex(df2, on)])
         IN  (IF ms = <<>>
              THEN <<RightOnly(b, df1, df2, on)>>
              ELSE [k \in 1..Len(ms) |-> Combine(ms[k], b, df2, on)])
             \o JoinFromRight(Tail(rows2), df1, df2, on)

\* outer computed as left: the keys found only in df2 are lost
JoinOuter_asLeft(keys, df1, df2, on) == JoinFromLeft(df1.rows, df1, df2, on, TRUE)

\* how = outer: the keys of both frames, sorted
RECURSIVE JoinOuter(_, _, _, _)
JoinOuter(keys, df1, df2, on) ==
    IF keys = <<>> THEN <<>>
    ELSE LET as == MatchingRows(df1.rows, KeyIndex(df1, on), Head(keys))
             bs == MatchingRows(df2.rows, KeyIndex(df2, on), Head(keys))
         IN  (IF as # <<>>
              THEN JoinFromLeft(as, df1, df2, on, TRUE)
              ELSE [k \in 1..Len(bs) |-> RightOnly(bs[k], df1, df2, on)])
             \o JoinOuter(Tail(keys), df1, df2, on)

\* df1.merge(df2, on=on, how=how)
Merge(df1, df2, on, how) ==
    [columns |-> MergedColumns(df1, df2, on),
     rows |->
        CASE how = "inner" -> JoinFromLeft(df1.rows, df1, df2, on, FALSE)
          [] how = "left"  -> JoinFromLeft(df1.rows, df1, df2, on, TRUE)
          [] how = "right" -> JoinFromRight(df2.rows, df1, df2, on)
          [] how = "outer" -> JoinOuter(KeyOrder, df1, df2, on)]

\* the second message names the first file
MissingColumnIn_sameFile(df1, df2) ==
    IF BUSINESS_NAME_COLUMN \notin Range(df1.columns) THEN <<FILE1>>
    ELSE IF BUSINESS_NAME_COLUMN \notin Range(df2.columns) THEN <<FILE1>>
    ELSE <<>>

\* lines 18-21: the file named by the ValueError, <<>> when both have the column
MissingColumnIn(df1, df2) ==
    IF BUSINESS_NAME_COLUMN \notin Range(df1.columns) THEN <<FILE1>>
    ELSE IF BUSINESS_NAME_COLUMN \notin Range(df2.columns) THEN <<FILE2>>
    ELSE <<>>

\* the enrichment tool does not run
EnrichIdle ==
    /\ API_KEY = <<>>
    /\ inputFile = [status |-> "missing", header |-> <<>>, rows |-> <<>>]
    /\ pc = "idle"
    /\ business_names = <<>>
    /\ i = 1
    /\ all_results = <<>>
    /\ max_photos = 0
    /\ net = <<>>
    /\ opened = <<>>
    /\ outputFile = <<>>
    /\ critical = <<>>
    /\ exitStatus = <<>>

MergeInit ==
    /\ mergeIn \in [file1 : Files1, file2 : Files2, merge_type : MergeTypes]
    /\ mpc = "start"
    /\ mergedFile = <<>>
    /\ mergeOut = <<>>
    /\ mergeExit = <<>>
    /\ EnrichIdle

\* except Exception as e: print(f"Error: {e}"); exit(1)
MergeError(msg) ==
    /\ mergeOut' = Append(mergeOut, "Error: " \o msg)
    /\ mergeExit' = <<1>>
    /\ UNCHANGED mergedFile

\* lines 36-42 with merge_files (lines 14-26): one run of the CLI
merge_files ==
    /\ mpc = "start"
    /\ mpc' = "done"
    /\ IF mergeIn.file1 = <<>>
       THEN MergeError("cannot read " \o FILE1)
       ELSE IF mergeIn.file2 = <<>>
       THEN MergeError("cannot read " \o FILE2)
       ELSE LET df1 == mergeIn.file1[1]
                df2 == mergeIn.file2[1]
            IN  IF MissingColumnIn(df1, df2) # <<>>
                THEN MergeError("Column 'Business Name' not found in "
                                \o MissingColumnIn(df1, df2)[1])
                ELSE LET merged == Merge(df1, df2, BUSINESS_NAME_COLUMN, mergeIn.merge_type)
                     IN  /\ mergedFile' = <<merged>>
                         /\ mergeOut' = mergeOut \o
                               <<"Merged " \o ToString(Len(merged.rows)) \o " records from "
                                 \o ToString(Len(df1.rows)) \o " and "
                                 \o ToString(Len(df2.rows)) \o " input records",
                                 "Merged files saved to output">>
                         /\ mergeExit' = <<0>>
    /\ UNCHANGED mergeIn
    /\ UNCHANGED enrichVars

MergeNext == merge_files

MergeSpec == MergeInit /\ [][MergeNext]_vars

(* ------------------- properties of the enrichment run ------------------ *)
KeySet == API_KEY \notin {<<>>, <<"">>}

HasNameColumn == \E h \in DOMAIN inputFile.header : inputFile.header[h] = BUSINESS_NAME_COLUMN

InputUsable ==
    /\ inputFile.status = "ok"
    /\ HasNameColumn
    /\ \A k \in DOMAIN inputFile.rows : ~inputFile.rows[k].short

\* the cell is empty once whitespace is stripped
Blank(cell) == \A j \in DOMAIN cell : cell[j] = " "

RequestsFor(k) == {n \in DOMAIN net : net[n].ev = "request" /\ net[n].idx = k}

ResponsesFor(k) == {n \in DOMAIN net : net[n].ev = "response" /\ net[n].idx = k}

\* the lookup of entity k gave no result (error, bad body or no candidate)
LookupFailed(k) == \E n \in ResponsesFor(k) : net[n].details = <<>>

\* the place the lookup of entity k returned, <<>> if none
PlaceOf(k) ==
    IF \E n \in ResponsesFor(k) : net[n].details # <<>>
    THEN (net[CHOOSE n \in ResponsesFor(k) : net[n].details # <<>>]).details[1]
    ELSE <<>>

\* photo URLs built for entity k: the photos of its place that carry a name
PhotoCount(k) ==
    IF "photos" \in DOMAIN PlaceOf(k)
    THEN Cardinality({j \in DOMAIN PlaceOf(k).photos :
                        PlaceOf(k).photos[j].name \notin {<<>>, <<"">>}})
    ELSE 0

MaxOf(S) == CHOOSE m \in S : \A x \in S : x <= m

MaxPhotoCount == MaxOf({0} \cup {PhotoCount(k) : k \in DOMAIN all_results})

WriteAttempts == {n \in DOMAIN opened : opened[n] = <<OUTPUT_FILENAME, "w">>}

PhotoFields(row) == DOMAIN row \ BaseColumns

\* C1: once the run is at the write step, the header has exactly the columns
\* photos_0 .. photos_(max-1), max being the largest photo count of the
\* processed entities; an entity with k < max photos has photos_k ..
\* photos_(max-1) empty, and no record has a photo field of index >= max.
C1_PhotoColumnsAreMax ==
    (pc = "done" /\ WriteAttempts # {}) =>
        LET m == MaxPhotoCount IN
        /\ max_photos = m
        /\ \A r \in DOMAIN all_results :
              PhotoFields(all_results[r]) = {PhotoColumn(j) : j \in 0..(PhotoCount(r) - 1)}
        /\ \A r \in DOMAIN all_results : PhotoCount(r) <= m
        /\ outputFile # <<>> =>
              LET hdr == outputFile[1].header IN
              /\ Len(hdr) = 4 + m
              /\ SubSeq(hdr, 1, 3) = <<BUSINESS_NAME_COLUMN, "review count", "rating">>
              /\ \A j \in 0..(m - 1) : hdr[4 + j] = PhotoColumn(j)
              /\ hdr[4 + m] = "image_attributions"
              /\ \A r \in DOMAIN outputFile[1].rows :
                    /\ Len(outputFile[1].rows[r]) = Len(hdr)
                    /\ \A j \in 0..(m - 1) :
                          (outputFile[1].rows[r][4 + j] = "") <=> (j >= PhotoCount(r))

\* an entity with two photos, one with one and one with none were written
C1_Witness ==
    /\ outputFile # <<>>
    /\ \E a, b \in DOMAIN all_results : PhotoCount(a) = 2 /\ PhotoCount(b) < 2
    /\ Len(outputFile[1].header) = 6

C3_EmptyNameNoCall ==
    InputUsable =>
        \A k \in DOMAIN inputFile.rows :
            Blank(inputFile.rows[k].cell) =>
                /\ RequestsFor(k) = {}
                /\ k \in DOMAIN all_results =>
                      /\ DOMAIN all_results[k] = BaseColumns
                      /\ \A c \in BaseColumns : all_results[k][c] = ""
                /\ outputFile # <<>> =>
                      \A h \in DOMAIN outputFile[1].header : outputFile[1].rows[k][h] = ""

\* an empty name after an entity that has photos, both written
C3_Witness ==
    /\ outputFile # <<>>
    /\ Len(inputFile.rows) = 2
    /\ Blank(inputFile.rows[2].cell)
    /\ PhotoCount(1) = 2

\* unreadable covers every exception raised while reading, a row without a
\* field under the name column included
FatalPrecondition ==
    \/ ~KeySet
    \/ inputFile.status \in {"missing", "unreadable"}
    \/ ~HasNameColumn
    \/ \E k \in DOMAIN inputFile.rows : inputFile.rows[k].short

\* C4: with the credential unset, the input missing or unreadable, or the
\* name column absent, no request is issued and no output file is written;
\* with the credential unset no file is opened at all.
C4_FatalNoLookupNoOutput ==
    /\ FatalPrecondition =>
          /\ net = <<>>
          /\ outputFile = <<>>
          /\ WriteAttempts = {}
    /\ critical # <<>> => net = <<>> /\ outputFile = <<>> /\ WriteAttempts = {}
    /\ ~KeySet => opened = <<>>

\* the run ended on an input that has rows but no name column
C4_Witness ==
    /\ pc = "done"
    /\ KeySet
    /\ inputFile.status = "ok"
    /\ ~HasNameColumn
    /\ inputFile.rows # <<>>

\* C5: when a fatal condition occurs the error is logged and the process
\* exits with a nonzero status.
C5_FatalExitsNonzero ==
    (pc = "done" /\ FatalPrecondition) =>
        /\ critical # <<>>
        /\ exitStatus # <<0>>

Alternates ==
    \A n \in DOMAIN net :
        /\ net[n].ev = (IF n % 2 = 1 THEN "request" ELSE "response")
        /\ n % 2 = 0 => net[n].idx = net[n - 1].idx
        /\ n > 2 => net[n].idx > net[n - 2].idx

\* C9: every non-empty name gets exactly one request, repeated names and
\* failed requests included; requests go out in input order, each answered
\* before the next is sent; the file is written once, after the last entity.
C9_OneRequestPerNameInOrder ==
    /\ Alternates
    /\ \A n \in DOMAIN net :
          /\ net[n].idx \in DOMAIN business_names
          /\ net[n].query = business_names[net[n].idx]
          /\ net[n].query # ""
    /\ \A k \in DOMAIN business_names :
          /\ Cardinality(RequestsFor(k)) <= 1
          /\ k < i => Cardinality(RequestsFor(k)) = (IF business_names[k] = "" THEN 0 ELSE 1)
          /\ k < i => Cardinality(ResponsesFor(k)) = Cardinality(RequestsFor(k))
          /\ k > i => RequestsFor(k) = {}
    /\ Cardinality(WriteAttempts) <= 1
    /\ WriteAttempts # {} =>
          /\ pc = "done"
          /\ i = Len(business_names) + 1
          /\ Len(all_results) = Len(business_names)
          /\ Len(net) % 2 = 0
    /\ outputFile # <<>> => WriteAttempts # {}

\* the same name twice, the first request failed, both requested, file written
C9_Witness ==
    /\ outputFile # <<>>
    /\ Len(business_names) = 2
    /\ business_names[1] = business_names[2]
    /\ Len(net) = 4
    /\ net[2].details = <<>>

\* C10: with the preconditions met, an input without data rows leads to no
\* lookup and no output file; an input with data rows leads to exactly one
\* attempt to write the output file.
C10_WriteIffRows ==
    (pc = "done" /\ KeySet /\ InputUsable) =>
        IF inputFile.rows = <<>>
        THEN net = <<>> /\ WriteAttempts = {} /\ outputFile = <<>>
        ELSE Cardinality(WriteAttempts) = 1

\* a run over rows whose lookups all failed still attempted the write
C10_Witness ==
    /\ pc = "done"
    /\ Len(net) = 4
    /\ LookupFailed(1)
    /\ LookupFailed(2)
    /\ Cardinality(WriteAttempts) = 1

(* --------------------- properties of the merge tool -------------------- *)
BothReadable == mergeIn.file1 # <<>> /\ mergeIn.file2 # <<>>

Df1 == mergeIn.file1[1]
Df2 == mergeIn.file2[1]
Out == mergedFile[1]

HasColumn(df, name) == \E c \in DOMAIN df.columns : df.columns[c] = name

ColumnAt(df, name) == CHOOSE c \in DOMAIN df.columns : df.columns[c] = name

KeysOf(df, name) == {df.rows[n][ColumnAt(df, name)] : n \in DOMAIN df.rows}

\* number of rows of df whose key is k
Mult(df, name, k) == Cardinality({n \in DOMAIN df.rows : df.rows[n][ColumnAt(df, name)] = k})

\* number of rows of df equal to row
Occurrences(df, row) == Cardinality({n \in DOMAIN df.rows : df.rows[n] = row})

AtLeastOne(n) == IF n = 0 THEN 1 ELSE n

RECURSIVE Sum(_)
Sum(ns) == IF ns = <<>> THEN 0 ELSE Head(ns) + Sum(Tail(ns))

\* the files that lack the key column
Offending ==
    {f \in {FILE1, FILE2} :
        \/ f = FILE1 /\ ~HasColumn(Df1, BUSINESS_NAME_COLUMN)
        \/ f = FILE2 /\ ~HasColumn(Df2, BUSINESS_NAME_COLUMN)}

PartA(r) == SubSeq(r, 1, Len(Df1.columns))

\* the part of an output row that comes from df2, the key put back in place
PartB(r) ==
    LET rest == SubSeq(r, Len(Df1.columns) + 1, Len(r))
        k2   == ColumnAt(Df2, BUSINESS_NAME_COLUMN)
    IN  SubSeq(rest, 1, k2 - 1) \o <<r[ColumnAt(Df1, BUSINESS_NAME_COLUMN)]>>
        \o SubSeq(rest, k2, Len(rest))

OutKey(r) == r[ColumnAt(Df1, BUSINESS_NAME_COLUMN)]

\* every cell of the part other than the key is empty
EmptyBut(part, k) == \A c \in DOMAIN part : c # k => part[c] = ""

CountOut(a, b) ==
    Cardinality({n \in DOMAIN Out.rows : PartA(Out.rows[n]) = a /\ PartB(Out.rows[n]) = b})

CountOutA(a) == Cardinality({n \in DOMAIN Out.rows : PartA(Out.rows[n]) = a})

CountOutB(b) == Cardinality({n \in DOMAIN Out.rows : PartB(Out.rows[n]) = b})

Merged == mpc = "done" /\ mergedFile # <<>>

\* C7: the output is the relational join on the key, duplicates included.
\* inner: one row per matching pair and no other; left: every row of the
\* first file once per matching row of the second, or once with the second's
\* columns empty, so the row count is the sum of max(1, multiplicity);
\* right: the same with the files exchanged.
C7_RelationalJoin ==
    Merged =>
        LET bn == BUSINESS_NAME_COLUMN
            k1 == ColumnAt(Df1, bn)
            k2 == ColumnAt(Df2, bn)
            how == mergeIn.merge_type
        IN
        /\ \A a \in Range(Df1.rows), b \in Range(Df2.rows) :
              CountOut(a, b) =
                 (IF a[k1] = b[k2] THEN Occurrences(Df1, a) * Occurrences(Df2, b) ELSE 0)
        /\ how = "inner" =>
              /\ \A n \in DOMAIN Out.rows :
                    /\ PartA(Out.rows[n]) \in Range(Df1.rows)
                    /\ PartB(Out.rows[n]) \in Range(Df2.rows)
                    /\ OutKey(Out.rows[n]) \in KeysOf(Df1, bn) \cap KeysOf(Df2, bn)
              /\ Len(Out.rows) =
                    Sum([n \in DOMAIN Df1.rows |-> Mult(Df2, bn, Df1.rows[n][k1])])
        /\ how = "left" =>
              /\ \A n \in DOMAIN Out.rows :
                    /\ PartA(Out.rows[n]) \in Range(Df1.rows)
                    /\ \/ PartB(Out.rows[n]) \in Range(Df2.rows)
                       \/ /\ OutKey(Out.rows[n]) \notin KeysOf(Df2, bn)
                          /\ EmptyBut(PartB(Out.rows[n]), k2)
              /\ \A a \in Range(Df1.rows) :
                    CountOutA(a) = Occurrences(Df1, a) * AtLeastOne(Mult(Df2, bn, a[k1]))
              /\ Len(Out.rows) =
                    Sum([n \in DOMAIN Df1.rows |-> AtLeastOne(Mult(Df2, bn, Df1.rows[n][k1]))])
        /\ how = "right" =>
              /\ \A n \in DOMAIN Out.rows :
                    /\ PartB(Out.rows[n]) \in Range(Df2.rows)
                    /\ \/ PartA(Out.rows[n]) \in Range(Df1.rows)
                       \/ /\ OutKey(Out.rows[n]) \notin KeysOf(Df1, bn)
                          /\ EmptyBut(PartA(Out.rows[n]), k1)
              /\ \A b \in Range(Df2.rows) :
                    CountOutB(b) = Occurrences(Df2, b) * AtLeastOne(Mult(Df1, bn, b[k2]))
              /\ Len(Out.rows) =
                    Sum([n \in DOMAIN Df2.rows |-> AtLeastOne(Mult(Df1, bn, Df2.rows[n][k2]))])

\* a left merge of a row matched twice and a row not matched
C7_Witness ==
    /\ Merged
    /\ mergeIn.merge_type = "left"
    /\ Len(Df1.rows) = 2
    /\ Mult(Df2, BUSINESS_NAME_COLUMN, Df1.rows[1][ColumnAt(Df1, BUSINESS_NAME_COLUMN)]) = 2
    /\ Mult(Df2, BUSINESS_NAME_COLUMN, Df1.rows[2][ColumnAt(Df1, BUSINESS_NAME_COLUMN)]) = 0
    /\ Len(Out.rows) = 3

\* the scenario's inputs, keyed by the given column
ScenarioInputs(key) ==
    /\ BothReadable
    /\ Df1 = [columns |-> <<key, "x">>, rows |-> << <<"1", "a">> >>]
    /\ Df2 = [columns |-> <<key, "y">>, rows |-> << <<"1", "b">>, <<"2", "c">> >>]

ScenarioOutput(key) ==
    /\ mergedFile # <<>>
    /\ Out.columns = <<key, "x", "y">>
    /\ Len(Out.rows) = 2
    /\ Range(Out.rows) = {<<"1", "a", "b">>, <<"2", "", "c">>}

\* C8 as stated: an outer merge of files keyed by "id" yields the union of
\* the keys, the union of the columns with the key once, and, on the
\* scenario's inputs, the rows {1,a,b} and {2,empty,c}.
C8_OuterOnId ==
    (mpc = "done" /\ mergeIn.merge_type = "outer" /\ BothReadable
       /\ HasColumn(Df1, "id") /\ HasColumn(Df2, "id")) =>
        /\ mergedFile # <<>>
        /\ Range(Out.columns) = Range(Df1.columns) \cup Range(Df2.columns)
        /\ Cardinality({c \in DOMAIN Out.columns : Out.columns[c] = "id"}) = 1
        /\ {Out.rows[n][ColumnAt(Out, "id")] : n \in DOMAIN Out.rows}
              = KeysOf(Df1, "id") \cup KeysOf(Df2, "id")
        /\ ScenarioInputs("id") => ScenarioOutput("id")

\* the name a non-key column of one file has in the output
OutputName(name, other, suffix) ==
    IF HasColumn(other, name) THEN name \o suffix ELSE name

\* C8 (amended): an outer merge on "Business Name" yields the union of the
\* keys, null-filled on the side without a match; its columns are those of
\* both files with the key once, a non-key name found in both files
\* appearing once per file with the suffixes _x and _y; on the scenario's
\* inputs keyed by "Business Name" the rows are {1,a,b} and {2,empty,c}.
C8_OuterOnBusinessName ==
    (Merged /\ mergeIn.merge_type = "outer") =>
        LET bn == BUSINESS_NAME_COLUMN
            k1 == ColumnAt(Df1, bn)
            k2 == ColumnAt(Df2, bn)
        IN
        /\ {OutKey(Out.rows[n]) : n \in DOMAIN Out.rows} = KeysOf(Df1, bn) \cup KeysOf(Df2, bn)
        /\ Cardinality({c \in DOMAIN Out.columns : Out.columns[c] = bn}) = 1
        /\ Len(Out.columns) = Len(Df1.columns) + Len(Df2.columns) - 1
        /\ Range(Out.columns) =
              {bn}
              \cup {OutputName(Df1.columns[c], Df2, "_x") : c \in DOMAIN Df1.columns \ {k1}}
              \cup {OutputName(Df2.columns[c], Df1, "_y") : c \in DOMAIN Df2.columns \ {k2}}
        /\ \A n \in DOMAIN Out.rows :
              /\ \/ PartA(Out.rows[n]) \in Range(Df1.rows)
                 \/ /\ OutKey(Out.rows[n]) \notin KeysOf(Df1, bn)
                    /\ EmptyBut(PartA(Out.rows[n]), k1)
              /\ \/ PartB(Out.rows[n]) \in Range(Df2.rows)
                 \/ /\ OutKey(Out.rows[n]) \notin KeysOf(Df2, bn)
                    /\ EmptyBut(PartB(Out.rows[n]), k2)
        /\ \A k \in KeysOf(Df1, bn) \cup KeysOf(Df2, bn) :
              Cardinality({n \in DOMAIN Out.rows : OutKey(Out.rows[n]) = k})
                 = AtLeastOne(Mult(Df1, bn, k)) * AtLeastOne(Mult(Df2, bn, k))
        /\ ScenarioInputs(bn) => ScenarioOutput(bn)

\* the scenario, keyed by "Business Name", was merged
C8_Witness ==
    /\ Merged
    /\ mergeIn.merge_type = "outer"
    /\ ScenarioInputs(BUSINESS_NAME_COLUMN)
    /\ ScenarioOutput(BUSINESS_NAME_COLUMN)
====
